---- MODULE Spec2Model ----
(***************************************************************************)
(* The timing and positioning model of music_generator.music.score:        *)
(* PositionedNote, Measure, Track and Score.                               *)
(*                                                                         *)
(* Objects live in a heap keyed by references, so that aliasing, cloning   *)
(* and in-place mutation are visible.  A Duration is an integer number of  *)
(* ticks (a quarter of a second); a beat count is an integer number of     *)
(* half beats.  Every value the model uses is exact in both forms.         *)
(***************************************************************************)
EXTENDS Integers, Sequences, FiniteSets, TLC

VARIABLES
    measures,       \* Measure objects: id -> [tempo, signature, notes]
    heap,           \* PositionedNote objects: reference -> fields
    tracks,         \* Track objects: id -> [built, kind, measures]
    scoreTracks,    \* Score.tracks: name -> Track id (a dict)
    addNoteLog,     \* per Measure, the add_note calls made on it, in order
    addTrackLog,    \* per name, the Track of the latest add_track (0: never)
                    \* and whether an add_track replaced another Track
    ret             \* the last call made and what it returned

vars == <<measures, heap, tracks, scoreTracks, addNoteLog, addTrackLog, ret>>

---------------------------------------------------------------------------
(* Bounds and input domains *)

\* at most this many notes are stored, over all measures
MaxNotes == 2
\* a Track is built from at most this many measure positions
MaxTrackLen == 2

MeasureIds == {1, 2}
TrackIds == {1, 2}
CoreTracks == {1}
TrackNames == {"melody", "bass"}

\* Tempo(120), Signature(4, 4) as in songs.py; Tempo(60), Signature(3, 8)
MeasureConfigs ==
    { [tempo |-> 120, signature |-> <<4, 4>>],
      [tempo |-> 60, signature |-> <<3, 8>>] }

\* add_note(note, position, duration[, velocity]); position and duration
\* in half beats, velocity in percent
AddNoteCalls ==
    { [note |-> "C3", position |-> 0, duration |-> 2, velocity |-> 100],
      [note |-> "A3", position |-> 1, duration |-> 1, velocity |-> 100],
      [note |-> "G2", position |-> 4, duration |-> 2, velocity |-> 50],
      [note |-> "G3", position |-> 9, duration |-> 4, velocity |-> 100] }

\* base offsets handed to Measure.generate_notes, in ticks (0 s and 2.0 s)
BaseOffsets == {0, 8}

TicksPerMinute == 60 * 4
HalfBeatsPerBeat == 1 + 1

SeqsUpTo(S, n) == UNION {[1..k -> S] : k \in 0..n}

---------------------------------------------------------------------------
(* Timing primitives (music_generator.music.timing) *)

\* Duration(seconds)
Duration(ticks) == ticks

\* Tempo.quarter_note(): 60 / bpm seconds
quarter_note(bpm) == Duration(TicksPerMinute \div bpm)

\* Signature.get_num_quarter_notes(): numerator * 4 / denominator beats,
\* here in half beats
get_num_quarter_notes(signature) ==
    (signature[1] * 4 * HalfBeatsPerBeat) \div signature[2]

\* Duration.from_num_beats(beats, tempo): beats * tempo.quarter_note()
from_num_beats(halfBeats, bpm) ==
    Duration((halfBeats * quarter_note(bpm)) \div HalfBeatsPerBeat)

---------------------------------------------------------------------------
(* References *)

StoredRef(m, i) == <<"stored", m, i>>
CloneRef(k) == <<"clone", 0, k>>
IsStored(r) == r[1] = "stored"

\* the result objects of an earlier call are no longer part of the state
Live(h) == [r \in {x \in DOMAIN h : IsStored(x)} |-> h[r]]

\* the reference of a newly allocated object
FreshRef(h) == CloneRef(Cardinality({x \in DOMAIN h : ~IsStored(x)}) + 1)

---------------------------------------------------------------------------
(* PositionedNote *)

\* PositionedNote.__init__
PositionedNote(note, offset, duration, velocity) ==
    [note |-> note, offset |-> offset, duration |-> duration,
     velocity |-> velocity]

\* PositionedNote.add_offset: self.offset += offset; return self
add_offset(h, ref, offset) ==
    [heap |-> [h EXCEPT ![ref].offset = @ + offset], ref |-> ref]

\* PositionedNote.get_moment_release
get_moment_release(h, ref) == h[ref].offset + h[ref].duration

\* a clone that hands back the object itself
clone_self(h, ref) == [heap |-> h, ref |-> ref]

\* PositionedNote.clone: deepcopy(self), a new object with equal fields
clone(h, ref) ==
    LET new == FreshRef(h)
    IN  [heap |-> h @@ (new :> h[ref]), ref |-> new]

---------------------------------------------------------------------------
(* Measure *)

\* Measure.__init__
Measure(tempo, signature) ==
    [tempo |-> tempo, signature |-> signature, notes |-> <<>>]

\* Measure.total_time
total_time(measure) ==
    Duration((get_num_quarter_notes(measure.signature)
                * quarter_note(measure.tempo)) \div HalfBeatsPerBeat)

\* list.append
ListAppend_front(l, x) == <<x>> \o l

ListAppend(l, x) == Append(l, x)

Min(a, b) == IF a < b THEN a ELSE b

\* the note add_note builds, with the position clamped to the measure
NewNote_clamped(measure, call) ==
    PositionedNote(call.note,
        from_num_beats(Min(call.position,
                           get_num_quarter_notes(measure.signature)),
                       measure.tempo),
        from_num_beats(call.duration, measure.tempo),
        call.velocity)

\* Measure.add_note, lines 79-81: the PositionedNote it builds
NewNote(measure, call) ==
    PositionedNote(call.note,
        from_num_beats(call.position, measure.tempo),
        from_num_beats(call.duration, measure.tempo),
        call.velocity)

RECURSIVE MeasureLoop(_, _, _, _, _)
\* [note.clone().add_offset(offset) for note in self.notes], from the
\* i-th note on
MeasureLoop(h, refs, i, offset, out) ==
    IF i > Len(refs)
    THEN [heap |-> h, notes |-> out]
    ELSE LET c == clone(h, refs[i])
             a == add_offset(c.heap, c.ref, offset)
         IN  MeasureLoop(a.heap, refs, i + 1, offset, Append(out, a.ref))

RECURSIVE MeasureLoopNoClone(_, _, _, _, _)
MeasureLoopNoClone(h, refs, i, offset, out) ==
    IF i > Len(refs)
    THEN [heap |-> h, notes |-> out]
    ELSE LET a == add_offset(h, refs[i], offset)
         IN  MeasureLoopNoClone(a.heap, refs, i + 1, offset,
                                Append(out, a.ref))

\* [note.add_offset(offset) for note in self.notes]
Measure_generate_notes_noclone(h, measure, offset) ==
    MeasureLoopNoClone(h, measure.notes, 1, offset, <<>>)

RECURSIVE SortedRefs(_, _)
\* refs ordered by the offset of their notes, earliest first
SortedRefs(h, refs) ==
    IF Len(refs) = 0 THEN <<>>
    ELSE LET i == CHOOSE i \in 1..Len(refs) :
                    \A j \in 1..Len(refs) :
                        \/ h[refs[i]].offset < h[refs[j]].offset
                        \/ h[refs[i]].offset = h[refs[j]].offset /\ i <= j
         IN  <<refs[i]>> \o
             SortedRefs(h, SubSeq(refs, 1, i - 1)
                            \o SubSeq(refs, i + 1, Len(refs)))

\* generate_notes over the notes sorted by offset
Measure_generate_notes_sorted(h, measure, offset) ==
    MeasureLoop(h, SortedRefs(h, measure.notes), 1, offset, <<>>)

\* Measure.generate_notes
Measure_generate_notes(h, measure, offset) ==
    MeasureLoop(h, measure.notes, 1, offset, <<>>)

---------------------------------------------------------------------------
(* Track *)

NoTrack == [built |-> FALSE, kind |-> "list", measures |-> <<>>]

\* Track.__init__: self.measures = measures, the Iterable itself; "list"
\* is an Iterable that can be iterated again, "iterator" one that cannot
Track(kind, items) == [built |-> TRUE, kind |-> kind, measures |-> items]

\* what is left in self.measures after "for measure in self.measures"
AfterIteration(track) ==
    IF track.kind = "iterator" THEN [track EXCEPT !.measures = <<>>]
    ELSE track

TrackAdvance_rewind(offset, measure) == offset - total_time(measure)

TrackAdvance_stuck(offset, measure) == offset

\* offset += measure.total_time()
TrackAdvance(offset, measure) == offset + total_time(measure)

RECURSIVE TrackLoop(_, _, _, _, _, _)
\* the loop of Track.generate_notes from the k-th measure on; starts
\* records the running offset each iteration began with
TrackLoop(h, ms, items, k, offset, out) ==
    IF k > Len(items)
    THEN [heap |-> h, notes |-> out.notes, starts |-> out.starts]
    ELSE LET g == Measure_generate_notes(h, ms[items[k]], offset)
         IN  TrackLoop(g.heap, ms, items, k + 1,
                       TrackAdvance(offset, ms[items[k]]),
                       [notes |-> out.notes \o g.notes,
                        starts |-> Append(out.starts, offset)])

\* Track.generate_notes
Track_generate_notes(h, ms, track) ==
    TrackLoop(h, ms, track.measures, 1, Duration(0),
              [notes |-> <<>>, starts |-> <<>>])

---------------------------------------------------------------------------
(* Score *)

EmptyDict == [n \in {} |-> 0]

DictSet_keep(d, k, v) ==
    [x \in DOMAIN d \cup {k} |-> IF x \in DOMAIN d THEN d[x] ELSE v]

\* self.tracks[name] = track
DictSet(d, k, v) == [x \in DOMAIN d \cup {k} |-> IF x = k THEN v ELSE d[x]]

\* a lookup that substitutes an empty track (Track id 0) for a missing one
Score_get_track_default(d, name) ==
    IF name \notin DOMAIN d
    THEN [kind |-> "Track", raised |-> FALSE, value |-> 0]
    ELSE [kind |-> "Track", raised |-> FALSE, value |-> d[name]]

\* Score.get_track: an IndexError instance is returned, not raised
Score_get_track(d, name) ==
    IF name \notin DOMAIN d
    THEN [kind |-> "IndexError", raised |-> FALSE, value |-> 0]
    ELSE [kind |-> "Track", raised |-> FALSE, value |-> d[name]]

---------------------------------------------------------------------------
(* Calls *)

NoCall ==
    [op |-> "none", measure |-> 0, track |-> 0, name |-> "", offset |-> 0,
     items |-> <<>>, kind |-> "None", raised |-> FALSE, value |-> 0,
     notes |-> <<>>, starts |-> <<>>]

NumStored == Cardinality({r \in DOMAIN heap : IsStored(r)})

Init ==
    /\ measures \in [MeasureIds ->
                        {Measure(c.tempo, c.signature) : c \in MeasureConfigs}]
    /\ heap = [r \in {} |-> 0]
    /\ tracks = [t \in TrackIds |-> NoTrack]
    /\ scoreTracks = EmptyDict
    /\ addNoteLog = [m \in MeasureIds |-> <<>>]
    /\ addTrackLog = [n \in TrackNames |-> [track |-> 0, replaced |-> FALSE]]
    /\ ret = NoCall

\* m.add_note(note, position, duration, velocity)
AddNote(m, call) ==
    /\ NumStored < MaxNotes
    /\ LET ref == StoredRef(m, Len(measures[m].notes) + 1)
       IN  /\ heap' = Live(heap) @@ (ref :> NewNote(measures[m], call))
           /\ measures' = [measures EXCEPT
                             ![m].notes = ListAppend(@, ref)]
    /\ addNoteLog' = [addNoteLog EXCEPT ![m] = Append(@, call)]
    /\ ret' = [NoCall EXCEPT !.op = "add_note", !.measure = m,
                             !.kind = "Measure", !.value = m]
    /\ UNCHANGED <<tracks, scoreTracks, addTrackLog>>

\* m.total_time()
TotalTime(m) ==
    /\ heap' = Live(heap)
    /\ ret' = [NoCall EXCEPT !.op = "total_time", !.measure = m,
                             !.kind = "Duration",
                             !.value = total_time(measures[m])]
    /\ UNCHANGED <<measures, tracks, scoreTracks, addNoteLog, addTrackLog>>

\* m.generate_notes(offset)
MeasureGenerateNotes(m, offset) ==
    /\ LET g == Measure_generate_notes(Live(heap), measures[m], offset)
       IN  /\ heap' = g.heap
           /\ ret' = [NoCall EXCEPT !.op = "Measure.generate_notes",
                                    !.measure = m, !.offset = offset,
                                    !.kind = "list", !.notes = g.notes]
    /\ UNCHANGED <<measures, tracks, scoreTracks, addNoteLog, addTrackLog>>

\* Track(measures), measures a list or a one-shot iterator over one
TrackInit(t, kind, items) ==
    /\ ~tracks[t].built
    /\ tracks' = [tracks EXCEPT ![t] = Track(kind, items)]
    /\ heap' = Live(heap)
    /\ ret' = [NoCall EXCEPT !.op = "Track", !.track = t, !.kind = "Track",
                             !.value = t]
    /\ UNCHANGED <<measures, scoreTracks, addNoteLog, addTrackLog>>

\* t.generate_notes()
TrackGenerateNotes(t) ==
    /\ tracks[t].built
    /\ LET g == Track_generate_notes(Live(heap), measures, tracks[t])
       IN  /\ heap' = g.heap
           /\ ret' = [NoCall EXCEPT !.op = "Track.generate_notes",
                                    !.track = t,
                                    !.items = tracks[t].measures,
                                    !.kind = "list", !.notes = g.notes,
                                    !.starts = g.starts]
    /\ tracks' = [tracks EXCEPT ![t] = AfterIteration(@)]
    /\ UNCHANGED <<measures, scoreTracks, addNoteLog, addTrackLog>>

\* score.add_track(name, t)
AddTrack(name, t) ==
    /\ tracks[t].built
    /\ scoreTracks' = DictSet(scoreTracks, name, t)
    /\ addTrackLog' = [addTrackLog EXCEPT ![name] =
            [track |-> t,
             replaced |-> @.replaced \/ (@.track # 0 /\ @.track # t)]]
    /\ heap' = Live(heap)
    /\ ret' = [NoCall EXCEPT !.op = "add_track", !.name = name, !.track = t]
    /\ UNCHANGED <<measures, tracks, addNoteLog>>

\* score.get_track(name)
GetTrack(name) ==
    /\ LET r == Score_get_track(scoreTracks, name)
       IN  ret' = [NoCall EXCEPT !.op = "get_track", !.name = name,
                                 !.kind = r.kind, !.raised = r.raised,
                                 !.value = r.value]
    /\ heap' = Live(heap)
    /\ UNCHANGED <<measures, tracks, scoreTracks, addNoteLog, addTrackLog>>

\* measures and one track
Next ==
    \/ \E m \in MeasureIds, call \in AddNoteCalls : AddNote(m, call)
    \/ \E m \in MeasureIds : TotalTime(m)
    \/ \E m \in MeasureIds, offset \in BaseOffsets :
            MeasureGenerateNotes(m, offset)
    \/ \E t \in CoreTracks, kind \in {"list", "iterator"},
          items \in SeqsUpTo(MeasureIds, MaxTrackLen) :
            TrackInit(t, kind, items)
    \/ \E t \in CoreTracks : TrackGenerateNotes(t)

Spec == Init /\ [][Next]_vars

\* a score over tracks
NextScore ==
    \/ \E t \in TrackIds, kind \in {"list", "iterator"},
          items \in SeqsUpTo(MeasureIds, MaxTrackLen) :
            TrackInit(t, kind, items)
    \/ \E name \in TrackNames, t \in TrackIds : AddTrack(name, t)
    \/ \E name \in TrackNames : GetTrack(name)

SpecScore == Init /\ [][NextScore]_vars

---------------------------------------------------------------------------
(* Properties *)

\* the fields of the events a call returned, in order
EventValues == [i \in 1..Len(ret.notes) |-> heap[ret.notes[i]]]

\* the references a Measure stores
StoredRefs == UNION {{measures[m].notes[i] : i \in 1..Len(measures[m].notes)}
                        : m \in MeasureIds}

RECURSIVE StartOf(_, _)
\* the sum of total_time() over the positions before the k-th
StartOf(items, k) ==
    IF k <= 1 THEN 0
    ELSE StartOf(items, k - 1) + total_time(measures[items[k - 1]])

RECURSIVE NotesBefore(_, _)
\* the number of notes stored at the positions before the k-th
NotesBefore(items, k) ==
    IF k <= 1 THEN 0
    ELSE NotesBefore(items, k - 1) + Len(measures[items[k - 1]].notes)

\* the stored note the e-th output event of a track of these items comes
\* from: its position in the track and its index in that measure
Origin(items, e) ==
    LET k == CHOOSE k \in 1..Len(items) :
                /\ NotesBefore(items, k) < e
                /\ e <= NotesBefore(items, k + 1)
    IN  [position |-> k, index |-> e - NotesBefore(items, k)]

\* the i-th add_note call on measure m placed its note at or past the end
\* of the measure
Beyond(m, i) ==
    addNoteLog[m][i].position >= get_num_quarter_notes(measures[m].signature)

IsPrefix(s, t) == Len(s) <= Len(t) /\ SubSeq(t, 1, Len(s)) = s

TrackCall == ret.op = "Track.generate_notes"
MeasureCall == ret.op = "Measure.generate_notes"

\* C1: Track.generate_notes() returns the concatenation, in track order, of
\* each measure's stored notes in stored order; an event from position k has
\* the stored note's offset plus the total_time() of the positions before k
\* and the stored note's note, duration and velocity; the output has as many
\* events as the positions hold notes.
C1_TrackConcatenation ==
    TrackCall =>
        /\ Len(ret.notes) = NotesBefore(ret.items, Len(ret.items) + 1)
        /\ \A e \in 1..Len(ret.notes) :
            LET o == Origin(ret.items, e)
                stored == heap[measures[ret.items[o.position]].notes[o.index]]
            IN  EventValues[e] =
                    [stored EXCEPT !.offset =
                        @ + StartOf(ret.items, o.position)]

C1_Witness ==
    /\ TrackCall
    /\ Len(ret.items) = 2
    /\ ret.items[1] # ret.items[2]
    /\ total_time(measures[ret.items[1]]) # total_time(measures[ret.items[2]])
    /\ \A k \in 1..2 : Len(measures[ret.items[k]].notes) >= 1

\* C2: whatever calls of Measure.generate_notes and Track.generate_notes were
\* made, every stored note has the note, offset, duration and velocity that
\* add_note gave it, and Measure.generate_notes(o) returns events whose
\* offsets are the stored offsets plus o.
C2_StoredNotesUntouched ==
    /\ \A m \in MeasureIds :
        /\ Len(measures[m].notes) = Len(addNoteLog[m])
        /\ \A i \in 1..Len(measures[m].notes) :
            LET call == addNoteLog[m][i]
            IN  heap[measures[m].notes[i]] =
                    [note |-> call.note,
                     offset |-> from_num_beats(call.position, measures[m].tempo),
                     duration |-> from_num_beats(call.duration, measures[m].tempo),
                     velocity |-> call.velocity]
    /\ MeasureCall =>
        \A i \in 1..Len(ret.notes) :
            EventValues[i].offset =
                from_num_beats(addNoteLog[ret.measure][i].position,
                               measures[ret.measure].tempo) + ret.offset

C2_Witness ==
    /\ MeasureCall
    /\ ret.offset > 0
    /\ Len(ret.notes) >= 1
    /\ heap[measures[ret.measure].notes[1]].offset = 0
    /\ EventValues[1].offset = ret.offset

\* C3: when a Measure with total_time() > 0 stands at two positions of a
\* Track, each of its stored notes gives two distinct output objects whose
\* offsets differ by the total_time() accumulated between the positions; no
\* output object occurs twice and none is a stored note.
C3_RepeatedMeasureIndependent ==
    TrackCall =>
        /\ \A a, b \in 1..Len(ret.notes) :
            a # b => ret.notes[a] # ret.notes[b]
        /\ \A a \in 1..Len(ret.notes) : ret.notes[a] \notin StoredRefs
        /\ \A k1, k2 \in 1..Len(ret.items) :
            (/\ k1 < k2
             /\ ret.items[k1] = ret.items[k2]
             /\ total_time(measures[ret.items[k1]]) > 0) =>
                \A i \in 1..Len(measures[ret.items[k1]].notes) :
                    LET e1 == NotesBefore(ret.items, k1) + i
                        e2 == NotesBefore(ret.items, k2) + i
                    IN  /\ ret.notes[e1] # ret.notes[e2]
                        /\ EventValues[e1].offset # EventValues[e2].offset
                        /\ EventValues[e2].offset - EventValues[e1].offset =
                            StartOf(ret.items, k2) - StartOf(ret.items, k1)

C3_Witness ==
    /\ TrackCall
    /\ Len(ret.items) = 2
    /\ ret.items[1] = ret.items[2]
    /\ Len(measures[ret.items[1]].notes) >= 1
    /\ Len(ret.notes) = 2 * Len(measures[ret.items[1]].notes)

\* C4: get_track(name) for a name no add_track ever inserted returns a
\* failure value (an IndexError, not a Track), raises nothing and leaves the
\* Score's mapping as it was.
C4_UnknownTrackLookup ==
    [][(ret'.op = "get_track" /\ addTrackLog[ret'.name].track = 0) =>
            /\ ret'.kind = "IndexError"
            /\ ret'.kind # "Track"
            /\ ~ret'.raised
            /\ scoreTracks' = scoreTracks]_vars

C4_Witness ==
    /\ ret.op = "get_track"
    /\ addTrackLog[ret.name].track = 0
    /\ DOMAIN scoreTracks # {}
    /\ ret.kind = "IndexError"

\* C5: Measure.generate_notes returns one event per add_note call made on
\* the measure, the i-th event coming from the i-th call, whatever the beat
\* positions of the calls.
C5_InsertionOrder ==
    MeasureCall =>
        /\ Len(ret.notes) = Len(addNoteLog[ret.measure])
        /\ \A i \in 1..Len(ret.notes) :
            LET call == addNoteLog[ret.measure][i]
                tempo == measures[ret.measure].tempo
            IN  /\ EventValues[i].note = call.note
                /\ EventValues[i].velocity = call.velocity
                /\ EventValues[i].duration = from_num_beats(call.duration, tempo)
                /\ EventValues[i].offset - ret.offset =
                        from_num_beats(call.position, tempo)

C5_Witness ==
    /\ MeasureCall
    /\ Len(ret.notes) = 2
    /\ addNoteLog[ret.measure][1].position > addNoteLog[ret.measure][2].position
    /\ EventValues[1].offset > EventValues[2].offset

\* C6: two successive calls of generate_notes() on a Track return equal
\* event sequences, and a call leaves the Track's measure sequence as it was.
C6_RepeatableRead ==
    [][(ret'.op = "Track.generate_notes") =>
            /\ tracks'[ret'.track].measures = tracks[ret'.track].measures
            /\ (TrackCall /\ ret.track = ret'.track) =>
                    EventValues' = EventValues]_vars

\* C7: a Measure's note sequence only grows at its end: each call leaves the
\* old sequence a prefix of the new one; add_note adds exactly one note, at
\* the end, and returns the Measure it was called on; every other call
\* leaves the sequence as it was.
C7_AppendOnly ==
    [][\A m \in MeasureIds :
        LET old == measures[m].notes
            new == measures'[m].notes
        IN  /\ IsPrefix(old, new)
            /\ IsPrefix([i \in 1..Len(old) |-> heap[old[i]]],
                        [i \in 1..Len(new) |-> heap'[new[i]]])
            /\ IF ret'.op = "add_note" /\ ret'.measure = m
               THEN /\ Len(new) = Len(old) + 1
                    /\ heap'[new[Len(new)]].note =
                            addNoteLog'[m][Len(addNoteLog'[m])].note
                    /\ ret'.kind = "Measure"
                    /\ ret'.value = m
               ELSE new = old]_vars

C7_Witness ==
    /\ ret.op = "add_note"
    /\ Len(measures[ret.measure].notes) = 2
    /\ heap[measures[ret.measure].notes[1]] # heap[measures[ret.measure].notes[2]]

\* C8: add_note takes a position at or past the measure's beat count as it
\* is: the note is stored with offset position * quarter_note(); realized at
\* base offset b its event is at b + position * quarter_note(), at or past
\* b + total_time(); in a Track the event is at or past the start of the
\* following measure.
C8_OutOfRangeAccepted ==
    /\ ret.op = "add_note" => ret.kind = "Measure" /\ ~ret.raised
    /\ \A m \in MeasureIds :
        \A i \in 1..Len(addNoteLog[m]) :
            Beyond(m, i) =>
                /\ i <= Len(measures[m].notes)
                /\ HalfBeatsPerBeat * heap[measures[m].notes[i]].offset =
                        addNoteLog[m][i].position * quarter_note(measures[m].tempo)
    /\ MeasureCall =>
        \A i \in 1..Len(addNoteLog[ret.measure]) :
            Beyond(ret.measure, i) =>
                /\ i <= Len(ret.notes)
                /\ HalfBeatsPerBeat * (EventValues[i].offset - ret.offset) =
                        addNoteLog[ret.measure][i].position
                            * quarter_note(measures[ret.measure].tempo)
                /\ EventValues[i].offset >=
                        ret.offset + total_time(measures[ret.measure])
    /\ TrackCall =>
        \A k \in 1..Len(ret.items) :
            \A i \in 1..Len(addNoteLog[ret.items[k]]) :
                Beyond(ret.items[k], i) =>
                    LET e == NotesBefore(ret.items, k) + i
                    IN  /\ e <= Len(ret.notes)
                        /\ EventValues[e].offset >=
                                ret.starts[k] + total_time(measures[ret.items[k]])
                        /\ k < Len(ret.items) =>
                                EventValues[e].offset >= ret.starts[k + 1]

C8_Witness ==
    /\ TrackCall
    /\ Len(ret.items) = 2
    /\ \E i \in 1..Len(addNoteLog[ret.items[1]]) :
        /\ Beyond(ret.items[1], i)
        /\ EventValues[i].offset > ret.starts[2]
    /\ Len(measures[ret.items[2]].notes) >= 1

\* C9: get_track(name) returns the Track of the latest add_track(name, ...):
\* add_track on a name already present replaces the entry without an error
\* and leaves the entries of the other names as they were.
C9_LatestAddTrackWins ==
    /\ \A n \in TrackNames :
        addTrackLog[n].track # 0 =>
            /\ n \in DOMAIN scoreTracks
            /\ scoreTracks[n] = addTrackLog[n].track
    /\ ret.op = "add_track" => ~ret.raised /\ ret.kind = "None"
    /\ (ret.op = "get_track" /\ addTrackLog[ret.name].track # 0) =>
            /\ ret.kind = "Track"
            /\ ret.value = addTrackLog[ret.name].track

C9_Witness ==
    /\ ret.op = "get_track"
    /\ addTrackLog[ret.name].replaced
    /\ ret.kind = "Track"
    /\ \E n \in TrackNames :
        n # ret.name /\ addTrackLog[n].track \notin {0, ret.value}

\* C10: with positive tempo and signature and non-negative beat positions
\* and durations, every Duration is non-negative, the running offset of
\* Track.generate_notes starts at 0 and never decreases, the events of
\* position k are at or after the start of position k, and every event is
\* released at or after its offset.
C10_TimeMovesForward ==
    /\ \A r \in DOMAIN heap :
        /\ heap[r].offset >= 0
        /\ heap[r].duration >= 0
        /\ get_moment_release(heap, r) >= heap[r].offset
    /\ \A m \in MeasureIds : total_time(measures[m]) >= 0
    /\ TrackCall =>
        /\ Len(ret.starts) = Len(ret.items)
        /\ Len(ret.starts) >= 1 => ret.starts[1] = 0
        /\ \A k \in 1..(Len(ret.starts) - 1) : ret.starts[k] <= ret.starts[k + 1]
        /\ \A e \in 1..Len(ret.notes) :
            EventValues[e].offset >= ret.starts[Origin(ret.items, e).position]

C10_Witness ==
    /\ TrackCall
    /\ Len(ret.items) = 2
    /\ ret.starts[2] > 0
    /\ Len(ret.notes) >= 2
    /\ EventValues[Len(ret.notes)].offset >= ret.starts[2]
    /\ Origin(ret.items, Len(ret.notes)).position = 2

====
